---- MODULE Spec2Model ----
(***************************************************************************)
(* Model of the JSX Info tree data provider (src/src/extension.ts, the     *)
(* JSXInfoProvider class and the commands registered by activate).        *)
(*                                                                         *)
(* Every invocation of the jsxInfo.run / jsxInfo.refresh command is an     *)
(* asynchronous invocation of run() / refresh().  An invocation runs       *)
(* synchronously up to its next await (a prompt of _getOptions or the      *)
(* jsxInfo.analyze call); each such synchronous stretch is one action.     *)
(* The host (workspace folders, prompt answers) and the analyze            *)
(* collaborator (how a call settles) are the environment.                  *)
(*                                                                         *)
(* Spec       : up to MaxLive invocations pending at once.                 *)
(* SeqSpec    : a command is issued only when no invocation is pending;    *)
(*              the prompts draw from larger answer sets.                  *)
(* RenderSpec : the provider holds any of a set of analysis results; the   *)
(*              host renders the tree and activates its items.             *)
(***************************************************************************)
EXTENDS Integers, Sequences, FiniteSets, Bags, TLC

\* Number of run()/refresh() invocations that can be pending at once in Spec.
MaxLive == 2

VARIABLES
    mode,              \* JSXInfoProvider.mode
    searchDir,         \* JSXInfoProvider.searchDir
    searchComponents,  \* JSXInfoProvider.searchComponents
    searchReport,      \* JSXInfoProvider.searchReport
    searchProp,        \* JSXInfoProvider.searchProp
    tasks,             \* bag of the pending invocations and where each is suspended
    stale,             \* TRUE iff mode was written after the last fire()
    entry,             \* mode and stored options when the sole pending invocation was invoked
    acted,             \* the last step: who took it, what it did, the mode before it
    view,              \* the root items the last getChildren() returned
    nav                \* the host editor and the openFile call in progress

vars == <<mode, searchDir, searchComponents, searchReport, searchProp,
          tasks, stale, entry, acted, view, nav>>

----------------------------------------------------------------------------
(* Values *)

\* An optional value (T | undefined): <<>> is undefined, <<v>> is v.
Undefined == <<>>
Some(v) == <<v>>
IsUndefined(o) == o = <<>>
Val(o) == o[1]

\* Strings the code inspects are sequences of characters.
EmptyStr == <<>>
StarStr == <<"*">>

\* The three variants of Mode.
ModeEmpty == [name |-> "empty"]
ModeLoading == [name |-> "loading"]
ModeOk(result) == [name |-> "ok", result |-> result]

\* Workspace folders the host can offer: uri.scheme and uri.fsPath.
FileFolder(path) == [scheme |-> "file", fsPath |-> path]
RemoteFolder == [scheme |-> "vscode-vfs", fsPath |-> "R"]
Folders == {FileFolder("D1"), RemoteFolder}
MoreFolders == Folders \cup {FileFolder("D2")}

\* vscode.workspace.workspaceFolders at the time of a command.
WorkspaceFolderChoices(folders) == {<<>>} \cup {<<f>> : f \in folders}

\* Answers of showWorkspaceFolderPick.
FolderAnswers(folders) == {Undefined} \cup {Some(f) : f \in folders}

\* Answers of the "Which components?" input box.
ComponentAnswers == {Undefined, Some(StarStr)}
MoreComponentAnswers ==
    ComponentAnswers \cup
    {Some(EmptyStr), Some(<<"A">>), Some(<<"A", " ", "B">>),
     Some(<<"A", " ", " ", "B">>)}

\* Answers of the report quick pick: the picked item.
ReportLabels == {"Usage", "Props", "Lines"}
ReportAnswers == {Undefined} \cup {Some([label |-> l]) : l \in ReportLabels}
FewReportAnswers == {Undefined, Some([label |-> "Usage"]), Some([label |-> "Lines"])}

\* Answers of the "Which prop?" input box.
PropAnswers == {Undefined, Some(EmptyStr), Some(<<"i", "d">>)}

\* A jsxInfo.Analysis: the scanned directory and files, the totals, and
\* the usage tables.  A Record<string, A> is the sequence of its entries
\* [k, v] in Object.keys order.
BaseAnalysis ==
    [directory |-> "D", filenames |-> <<"f", "g">>, elapsedTime |-> 1,
     componentTotal |-> 2, componentUsageTotal |-> 13,
     componentUsage |-> <<>>, propUsage |-> <<>>, lineUsage |-> <<>>,
     errors |-> <<>>, suggestedPlugins |-> <<>>]

\* The result the collaborator returns in Spec and SeqSpec.
SampleAnalysis ==
    [BaseAnalysis EXCEPT
        !.componentUsage = <<[k |-> "B", v |-> 3], [k |-> "A", v |-> 10]>>,
        !.propUsage = <<[k |-> "A", v |-> <<[k |-> "p", v |-> 3]>>]>>]

\* Ways an analyze call settles: a result, an Error instance, another value.
ErrorMessages == {"disk error"}
OtherFailures == {"oops"}
Outcomes ==
    {[kind |-> "resolve", result |-> SampleAnalysis]}
    \cup {[kind |-> "error", message |-> m] : m \in ErrorMessages}
    \cup {[kind |-> "other", value |-> v] : v \in OtherFailures}

\* A promise: pending, fulfilled, or rejected with a value.
Pending == [state |-> "pending"]
Fulfilled == [state |-> "fulfilled"]
Rejected(v) == [state |-> "rejected", value |-> v]

\* An invocation: the operation the command called, where it is suspended,
\* what _getOptions returned, the arguments of its analyze call and how the
\* call settled, the promise of the operation and the promise of the
\* refresh() that made the call; latest tells whether its analyze call is
\* the most recently started one.
NoTask ==
    [kind |-> "none", pc |-> "idle", got |-> "none",
     args |-> <<>>, report |-> <<>>, latest |-> FALSE,
     settled |-> [kind |-> "none"],
     promise |-> [state |-> "none"], refreshPromise |-> [state |-> "none"]]

PromptPcs == {"pickFolder", "askComponents", "pickReport", "askProp"}

NoEntry == [mode |-> <<>>, options |-> <<>>]

----------------------------------------------------------------------------
(* comp.split(/\s+/) *)

RECURSIVE SplitFrom(_, _, _, _)
SplitFrom(s, i, cur, acc) ==
    IF i > Len(s) THEN Append(acc, cur)
    ELSE IF s[i] = " "
         THEN IF i > 1 /\ s[i - 1] = " "
              THEN SplitFrom(s, i + 1, cur, acc)
              ELSE SplitFrom(s, i + 1, <<>>, Append(acc, cur))
         ELSE SplitFrom(s, i + 1, Append(cur, s[i]), acc)

split(s) == SplitFrom(s, 1, <<>>, <<>>)

----------------------------------------------------------------------------
(* A handler is a composition of its statements over the record of the     *)
(* provider's fields, the acting invocation and the effects of the step.   *)

\* The provider as invocation `task` starts a step.
Begin(task) ==
    [mode |-> mode, searchDir |-> searchDir,
     searchComponents |-> searchComponents, searchReport |-> searchReport,
     searchProp |-> searchProp, stale |-> stale, task |-> task, log |-> <<>>]

\* The stored options.
options(s) ==
    [dir |-> s.searchDir, components |-> s.searchComponents,
     report |-> s.searchReport, prop |-> s.searchProp]

\* this.mode = m
setMode(s, m) ==
    [s EXCEPT !.log = Append(@, [e |-> "mode", from |-> s.mode.name,
                                 to |-> m.name]),
              !.mode = m,
              !.stale = TRUE]

\* this._onDidChangeTreeData.fire()
fire(s) == [s EXCEPT !.log = Append(@, [e |-> "fire"]), !.stale = FALSE]

\* vscode.window.showErrorMessage(msg)
showErrorMessage(s, msg) ==
    [s EXCEPT !.log = Append(@, [e |-> "show", msg |-> msg])]

\* jsxInfo.analyze(args): the call is issued and the invocation awaits it;
\* the invocation remembers the report kind stored at that moment, and its
\* call is now the most recently started one.
analyze(s, args) ==
    [s EXCEPT !.log = Append(@, [e |-> "analyze", args |-> args]),
              !.task.args = args,
              !.task.report = s.searchReport,
              !.task.latest = TRUE,
              !.task.pc = "analyze"]

\* The arguments refresh() builds from the stored fields.
analyzeArgs(s) ==
    LET comp == IF IsUndefined(s.searchComponents)
                   \/ Val(s.searchComponents) = EmptyStr
                THEN EmptyStr
                ELSE Val(s.searchComponents)
    IN  [directory |-> s.searchDir,
         components |-> IF comp = EmptyStr \/ comp = StarStr
                        THEN <<>>
                        ELSE split(comp),
         prop |-> s.searchProp]

\* refresh(), from its entry to the await of the analyze call.
refresh(s) ==
    LET s1 == setMode(s, ModeLoading)
        s2 == fire(s1)
        s3 == [s2 EXCEPT !.task.refreshPromise = Pending]
    IN  analyze(s3, analyzeArgs(s3))

\* The success path without the fire() after the write.
refreshOk_NoFire(s, result) ==
    LET s1 == setMode(s, ModeOk(result))
    IN  [s1 EXCEPT !.task.refreshPromise = Fulfilled]

\* refresh(), the success path after the await.
refreshOk(s, result) ==
    LET s1 == setMode(s, ModeOk(result))
        s2 == fire(s1)
    IN  [s2 EXCEPT !.task.refreshPromise = Fulfilled]

\* The catch block without `this.mode = { name: "empty" }`.
refreshCatchError_NoReset(s, message) ==
    LET s1 == showErrorMessage(s, message)
        s3 == fire(s1)
    IN  [s3 EXCEPT !.task.refreshPromise = Fulfilled]

\* refresh(), the catch block for err instanceof Error.
refreshCatchError(s, message) ==
    LET s1 == showErrorMessage(s, message)
        s2 == setMode(s1, ModeEmpty)
        s3 == fire(s2)
    IN  [s3 EXCEPT !.task.refreshPromise = Fulfilled]

\* refresh(), the catch block for any other value: throw err.
refreshCatchOther(s, value) ==
    [s EXCEPT !.task.refreshPromise = Rejected(value)]

\* refresh() resumed when its analyze call settles.  The result is the
\* collaborator's answer (data) to the arguments of this call, kept with
\* those arguments, the report kind stored when the call was made, and
\* whether the call was the most recently started one.
refreshResume(s, outcome) ==
    LET s0 == [s EXCEPT !.task.pc = "done", !.task.settled = outcome]
        s1 == CASE outcome.kind = "resolve" ->
                     refreshOk(s0, [args |-> s.task.args,
                                    report |-> s.task.report,
                                    latest |-> s.task.latest,
                                    data |-> outcome.result])
                [] outcome.kind = "error" ->
                     refreshCatchError(s0, outcome.message)
                [] OTHER -> refreshCatchOther(s0, outcome.value)
    IN  \* when the command called refresh(), this is the command's promise
        IF s.task.kind = "refresh"
        THEN [s1 EXCEPT !.task.promise = s1.task.refreshPromise]
        ELSE s1

\* run() without the `if (!ok) return`.
run_IgnoresCancel(s, ok) ==
    LET s1 == refresh(s)
    IN  [s1 EXCEPT !.task.promise = Fulfilled]

\* run(), after `await this._getOptions()`.
run(s, ok) ==
    IF ~ok
    THEN [s EXCEPT !.task.pc = "done", !.task.promise = Fulfilled]
    ELSE LET s1 == refresh(s)
         IN  [s1 EXCEPT !.task.promise = Fulfilled]

\* _getOptions returns false / true to run().
returnFalse(s, why) == run([s EXCEPT !.task.got = why], FALSE)
returnTrue(s) == run([s EXCEPT !.task.got = "true"], TRUE)

\* _getOptions once dir is known, up to the components prompt.
getOptionsDir(s, dir) ==
    IF IsUndefined(dir) THEN returnFalse(s, "cancelled")
    ELSE IF Val(dir).scheme # "file"
    THEN returnFalse(showErrorMessage(s, <<"unsupported", Val(dir).scheme>>),
                     "unsupported")
    ELSE [s EXCEPT !.searchDir = Some(Val(dir).fsPath),
                   !.task.pc = "askComponents"]

\* _getOptions after the components prompt, up to the report pick.
getOptionsComponents(s, answer) ==
    LET s1 == [s EXCEPT !.searchComponents = answer]
    IN  IF IsUndefined(s1.searchComponents)
        THEN returnFalse(s1, "cancelled")
        ELSE [s1 EXCEPT !.task.pc = "pickReport"]

\* _getOptions after the report pick.
getOptionsReport(s, report) ==
    IF IsUndefined(report) THEN returnFalse(s, "cancelled")
    ELSE LET s1 == [s EXCEPT !.searchReport = Some(Val(report).label)]
         IN  IF s1.searchReport = Some("Lines")
             THEN [s1 EXCEPT !.task.pc = "askProp"]
             ELSE returnTrue(s1)

\* _getOptions after the prop prompt.
getOptionsProp(s, answer) ==
    LET s1 == [s EXCEPT !.searchProp = answer]
    IN  IF IsUndefined(s1.searchProp) \/ s1.searchProp = Some(EmptyStr)
        THEN returnFalse(s1, "cancelled")
        ELSE returnTrue(s1)

\* _getOptions from its entry: the first workspace folder, or the pick.
getOptions(s, workspaceFolders) ==
    IF workspaceFolders = <<>>
    THEN [s EXCEPT !.task.pc = "pickFolder"]
    ELSE getOptionsDir(s, Some(workspaceFolders[1]))

----------------------------------------------------------------------------
(* Analysis results and the tree getChildren builds from them.             *)
(*                                                                         *)
(* A Record<string, A> is the sequence of its entries [k, v] in            *)
(* Object.keys order, keys unique.  A label is the sequence of the pieces  *)
(* its template string concatenates; numbers are pieces in decimal.        *)

\* UTF-16 code units of the one-letter names and file names used here,
\* which is what `<` on two strings compares.
CodeUnit == [c \in {"A", "B", "a", "f", "g", "p", "q"} |->
                CASE c = "A" -> 65 [] c = "B" -> 66 [] c = "a" -> 97
                  [] c = "f" -> 102 [] c = "g" -> 103
                  [] c = "p" -> 112 [] OTHER -> 113]

\* Sort keys: a number, a string, or undefined.
NumKey(n) == [t |-> "num", n |-> n, s |-> ""]
StrKey(str) == [t |-> "str", n |-> 0, s |-> str]
UndefKey == [t |-> "undef", n |-> 0, s |-> ""]

\* a < b of JavaScript on two sort keys; false when either is undefined.
Less(a, b) ==
    CASE a.t = "num" /\ b.t = "num" -> a.n < b.n
      [] a.t = "str" /\ b.t = "str" -> CodeUnit[a.s] < CodeUnit[b.s]
      [] OTHER -> FALSE

\* The comparator of sortObject.
compare(a, b, dir) ==
    IF Less(a, b) THEN dir * (-1)
    ELSE IF Less(b, a) THEN dir * 1
    ELSE 0

\* Array.prototype.sort with that comparator: a stable insertion sort.
RECURSIVE InsertItem(_, _, _)
InsertItem(sorted, x, dir) ==
    IF sorted = <<>> THEN <<x>>
    ELSE LET last == sorted[Len(sorted)]
             front == SubSeq(sorted, 1, Len(sorted) - 1)
         IN  IF compare(last.key, x.key, dir) > 0
             THEN Append(InsertItem(front, x, dir), last)
             ELSE Append(sorted, x)

RECURSIVE SortItems(_, _)
SortItems(items, dir) ==
    IF items = <<>> THEN <<>>
    ELSE InsertItem(SortItems(SubSeq(items, 1, Len(items) - 1), dir),
                    items[Len(items)], dir)

\* sortObject(dict, direction, getSortKey): the entries of dict, sorted.
sortObject(dict, direction, getSortKey(_, _)) ==
    LET dir == IF direction = "asc" THEN 1 ELSE -1
        items == [i \in 1..Len(dict) |->
                     [k |-> dict[i].k, v |-> dict[i].v,
                      key |-> getSortKey(dict[i].k, dict[i].v)]]
        sorted == SortItems(items, dir)
    IN  [i \in 1..Len(sorted) |-> [k |-> sorted[i].k, v |-> sorted[i].v]]

\* sortObjectValuesDesc with the direction "asc".
sortObjectValuesDesc_Asc(dict) ==
    sortObject(dict, "asc", LAMBDA k, v : NumKey(v))

sortObjectValuesDesc(dict) ==
    sortObject(dict, "desc", LAMBDA k, v : NumKey(v))

sortObjectKeysAsc(dict) ==
    sortObject(dict, "asc", LAMBDA k, v : StrKey(k))

\* Object.keys(dict) and dict[key] (undefined when the key is absent).
Keys(dict) == {dict[i].k : i \in 1..Len(dict)}
Lookup(dict, key) ==
    IF key \in Keys(dict)
    THEN Some((CHOOSE i \in 1..Len(dict) : dict[i].k = key))
    ELSE Undefined
Get(dict, key) ==
    IF IsUndefined(Lookup(dict, key)) THEN Undefined
    ELSE Some(dict[Val(Lookup(dict, key))].v)

\* `${n}` for a number or undefined.
Show(opt) == IF IsUndefined(opt) THEN "undefined" ELSE ToString(Val(opt))

\* ((count / total) * 100).toFixed(0): NaN when total is undefined or both
\* are 0, Infinity when only total is 0, else the nearest integer, halves
\* up, of the exact quotient.  The rounding error of the two floating-point
\* operations is not represented.
toFixed0(count, total) ==
    IF IsUndefined(total) THEN "NaN"
    ELSE IF Val(total) = 0
    THEN (IF count = 0 THEN "NaN" ELSE "Infinity")
    ELSE ToString((200 * count + Val(total)) \div (2 * Val(total)))

\* const sep = "  \u{00b7}  " (the middle dot written as a period)
Sep == "  .  "

\* Tree items.  Every item has the same fields; an item without a command
\* has NoCommand.
NoCommand == [title |-> <<>>, command |-> "", arguments |-> <<>>]

\* An `undefined` entry of a child list.
UndefinedItem ==
    [type |-> "undefined", label |-> <<>>, children |-> <<>>,
     command |-> NoCommand]

TreeInfo(label) ==
    [type |-> "info", label |-> label, children |-> <<>>,
     command |-> NoCommand]

TreeCommand(label, command, args) ==
    [type |-> "command", label |-> label, children |-> <<>>,
     command |-> [title |-> label, command |-> command, arguments |-> args]]

TreeOpenFile(label, filename, startLine, startColumn, endLine, endColumn) ==
    [type |-> "openFile", label |-> label, children |-> <<>>,
     command |-> [title |-> label, command |-> "jsxInfo._openFile",
                  arguments |-> <<filename, startLine, startColumn,
                                  endLine, endColumn>>]]

\* TreeFolder without the "No results" placeholder.
TreeFolder_NoPlaceholder(label, children) ==
    [type |-> "folder", label |-> label,
     children |-> SelectSeq(children, LAMBDA c : c.type # "undefined"),
     command |-> NoCommand]

TreeFolder(label, children) ==
    [type |-> "folder", label |-> label,
     children |-> IF Len(children) = 0
                  THEN <<TreeInfo(<<"No results">>)>>
                  ELSE SelectSeq(children, LAMBDA c : c.type # "undefined"),
     command |-> NoCommand]

\* items.map(f)
Map(items, f(_)) == [i \in 1..Len(items) |-> f(items[i])]

\* directoryFolder building the Errors folder whatever result.errors holds.
directoryFolder_AlwaysErrors(result) ==
    TreeFolder(<<result.directory>>,
        << TreeInfo(<<ToString(Len(result.filenames)), " files in ",
                      ToString(result.elapsedTime), " seconds">>),
           TreeInfo(<<ToString(result.componentTotal), " components, ",
                      ToString(result.componentUsageTotal), " uses">>),
           TreeFolder(<<"Errors">>,
               Map(sortObjectKeysAsc(result.errors),
                   LAMBDA e : TreeOpenFile(<<e.k>>, e.k,
                                  e.v.loc.line, e.v.loc.column,
                                  e.v.loc.line, e.v.loc.column))),
           IF Len(result.suggestedPlugins) > 0
           THEN TreeFolder(<<"Suggested Plugins">>,
                    Map(result.suggestedPlugins, LAMBDA pl : TreeInfo(<<pl>>)))
           ELSE UndefinedItem >>)

\* The folder titled with the scanned directory.
directoryFolder(result) ==
    TreeFolder(<<result.directory>>,
        << TreeInfo(<<ToString(Len(result.filenames)), " files in ",
                      ToString(result.elapsedTime), " seconds">>),
           TreeInfo(<<ToString(result.componentTotal), " components, ",
                      ToString(result.componentUsageTotal), " uses">>),
           IF Len(result.errors) > 0
           THEN TreeFolder(<<"Errors">>,
                    Map(sortObjectKeysAsc(result.errors),
                        LAMBDA e : TreeOpenFile(<<e.k>>, e.k,
                                       e.v.loc.line, e.v.loc.column,
                                       e.v.loc.line, e.v.loc.column)))
           ELSE UndefinedItem,
           IF Len(result.suggestedPlugins) > 0
           THEN TreeFolder(<<"Suggested Plugins">>,
                    Map(result.suggestedPlugins, LAMBDA pl : TreeInfo(<<pl>>)))
           ELSE UndefinedItem >>)

usageReport(result) ==
    TreeFolder(<<"Usage Report">>,
        Map(sortObjectValuesDesc(result.componentUsage),
            LAMBDA e : TreeInfo(<<ToString(e.v), Sep, "<", e.k, ">">>)))

\* One prop leaf of the Props report.
propLeaf(e, total) ==
    TreeInfo(<<ToString(e.v), Sep, e.k, Sep, toFixed0(e.v, total), "%">>)

propsReport(result) ==
    TreeFolder(<<"Props Report">>,
        Map(sortObject(result.propUsage, "desc",
                LAMBDA k, v : IF IsUndefined(Get(result.componentUsage, k))
                              THEN UndefKey
                              ELSE NumKey(Val(Get(result.componentUsage, k)))),
            LAMBDA c :
                LET total == Get(result.componentUsage, c.k)
                IN  TreeFolder(<<"<", c.k, ">", Sep, Show(total)>>,
                        Map(sortObjectValuesDesc(c.v),
                            LAMBDA e : propLeaf(e, total)))))

linesReport(result) ==
    TreeFolder(<<"Lines Report">>,
        Map(sortObjectKeysAsc(result.lineUsage),
            LAMBDA c :
                TreeFolder(<<c.k>>,
                    Map(sortObjectKeysAsc(c.v),
                        LAMBDA pr :
                            TreeFolder(<<pr.k>>,
                                Map(pr.v,
                                    LAMBDA obj :
                                        TreeOpenFile(<<obj.propCode>>,
                                            obj.filename,
                                            obj.startLoc.line,
                                            obj.startLoc.column,
                                            obj.endLoc.line,
                                            obj.endLoc.column)))))))

\* The report section getChildren picks from this.searchReport.
reportSection(s, result) ==
    IF s.searchReport = Some("Usage") THEN usageReport(result)
    ELSE IF s.searchReport = Some("Props") THEN propsReport(result)
    ELSE linesReport(result)

\* getChildren() in mode loading, with the Run command in front.
loadingChildren_WithRun ==
    <<TreeCommand(<<"Run">>, "jsxInfo.run", <<>>),
      TreeInfo(<<"Scanning...">>)>>

loadingChildren == <<TreeInfo(<<"Scanning...">>)>>

\* getChildren() without an element: the root items.
getChildren(s) ==
    CASE s.mode.name = "empty" ->
           <<TreeCommand(<<"Run">>, "jsxInfo.run", <<>>)>>
      [] s.mode.name = "loading" -> loadingChildren
      [] OTHER ->
           LET result == s.mode.result.data
           IN  << TreeCommand(<<"Run">>, "jsxInfo.run", <<>>),
                  TreeCommand(<<"Refresh">>, "jsxInfo.refresh", <<>>),
                  directoryFolder(result),
                  reportSection(s, result) >>

\* getChildren(element): the children of an item.
getChildrenOf(element) == element.children

\* Every item of a tree.
RECURSIVE ItemsOf(_)
ItemsOf(item) ==
    {item} \cup UNION {ItemsOf(item.children[i]) : i \in 1..Len(item.children)}

ItemsIn(roots) == UNION {ItemsOf(roots[i]) : i \in 1..Len(roots)}

----------------------------------------------------------------------------
(* openFile and the host editor it drives.                                 *)

\* Largest line and column of a position handed to jsxInfo._openFile.
MaxLine == 2
MaxColumn == 1

Documents == {"f", "g"}

\* Failures of openTextDocument / showTextDocument: Error instances.
OpenFailures == {"cannot open"}
ShowFailures == {"cannot show"}
IllegalArgument == "illegal argument"

\* new vscode.Position(line, character): throws on a negative argument.
PositionThrows(line, character) == line < 0 \/ character < 0
Position(line, character) == [line |-> line, character |-> character]

\* a.isBefore(b) of vscode.Position
IsBefore(a, b) ==
    a.line < b.line \/ (a.line = b.line /\ a.character < b.character)

\* new vscode.Range(startLine, startColumn, endLine, endColumn): start is
\* the earlier of the two positions.
RangeThrows(startLine, startColumn, endLine, endColumn) ==
    PositionThrows(startLine, startColumn) \/ PositionThrows(endLine, endColumn)

Range(startLine, startColumn, endLine, endColumn) ==
    LET a == Position(startLine, startColumn)
        b == Position(endLine, endColumn)
    IN  IF IsBefore(b, a) THEN [start |-> b, end |-> a]
        ELSE [start |-> a, end |-> b]

\* new vscode.Selection(anchorLine, anchorColumn, activeLine, activeColumn)
Selection(anchorLine, anchorColumn, activeLine, activeColumn) ==
    LET r == Range(anchorLine, anchorColumn, activeLine, activeColumn)
    IN  [anchor |-> Position(anchorLine, anchorColumn),
         active |-> Position(activeLine, activeColumn),
         start |-> r.start, end |-> r.end]

\* The host editor and the openFile call in progress: where it is
\* suspended, its arguments, the active document, the selection of each
\* document, the last revealed range, the messages shown and logged by the
\* call, its promise, how it ended, the selections when it was called, and
\* the number of calls so far.
NoArgs == [filename |-> "", startLine |-> 0, startColumn |-> 0,
           endLine |-> 0, endColumn |-> 0]
NoRange == [start |-> Position(0, 0), end |-> Position(0, 0)]

NavInit ==
    [pc |-> "idle", args |-> NoArgs, active |-> "",
     selections |-> [d \in Documents |-> Selection(0, 0, 0, 0)],
     revealed |-> NoRange, shown |-> <<>>, logged |-> <<>>,
     promise |-> [state |-> "none"], outcome |-> "none",
     before |-> [d \in Documents |-> Selection(0, 0, 0, 0)], opens |-> 0]

\* openFile(...), from its entry to the await of openTextDocument.
openFile(n, args) ==
    [n EXCEPT !.pc = "openTextDocument", !.args = args, !.opens = @ + 1,
              !.shown = <<>>, !.logged = <<>>, !.promise = Pending,
              !.outcome = "none", !.before = n.selections]

\* The catch block of openFile without showErrorMessage.
openFileCatch_NoMessage(n, message) ==
    [n EXCEPT !.pc = "idle",
              !.logged = Append(@, <<"fail", message>>),
              !.promise = Fulfilled,
              !.outcome = "failed"]

\* The catch block of openFile.
openFileCatch(n, message) ==
    [n EXCEPT !.pc = "idle",
              !.shown = Append(@, message),
              !.logged = Append(@, <<"fail", message>>),
              !.promise = Fulfilled,
              !.outcome = "failed"]

\* openFile after openTextDocument settled.
openFileOpened(n, failure) ==
    IF IsUndefined(failure)
    THEN [n EXCEPT !.pc = "showTextDocument"]
    ELSE openFileCatch(n, Val(failure))

\* The rest of openFile as the earlier copy of the file has it: the
\* selection is built from the 1-based lines as they are.
openFileShown_NoLineConversion(n, failure) ==
    IF ~IsUndefined(failure) THEN openFileCatch(n, Val(failure))
    ELSE LET a == n.args
             n1 == [n EXCEPT !.active = a.filename]
         IN  IF RangeThrows(a.startLine, a.startColumn,
                            a.endLine, a.endColumn)
             THEN openFileCatch(n1, IllegalArgument)
             ELSE [n1 EXCEPT
                      !.selections[a.filename] =
                          Selection(a.startLine, a.startColumn,
                                    a.endLine, a.endColumn),
                      !.pc = "idle", !.promise = Fulfilled,
                      !.outcome = "ok"]

\* openFile after showTextDocument settled: range, revealRange, selection.
openFileShown(n, failure) ==
    IF ~IsUndefined(failure) THEN openFileCatch(n, Val(failure))
    ELSE LET a == n.args
             n1 == [n EXCEPT !.active = a.filename]
         IN  IF RangeThrows(a.startLine - 1, a.startColumn,
                            a.endLine - 1, a.endColumn)
             THEN openFileCatch(n1, IllegalArgument)
             ELSE LET range == Range(a.startLine - 1, a.startColumn,
                                     a.endLine - 1, a.endColumn)
                  IN  [n1 EXCEPT
                          !.revealed = range,
                          !.selections[a.filename] =
                              Selection(range.start.line,
                                        range.start.character,
                                        range.end.line,
                                        range.end.character),
                          !.pc = "idle", !.promise = Fulfilled,
                          !.outcome = "ok"]

\* The arguments a tree item's command carries to jsxInfo._openFile.
ArgsOf(item) ==
    [filename |-> item.command.arguments[1],
     startLine |-> item.command.arguments[2],
     startColumn |-> item.command.arguments[3],
     endLine |-> item.command.arguments[4],
     endColumn |-> item.command.arguments[5]]

----------------------------------------------------------------------------
(* Actions *)

Init ==
    /\ mode = ModeEmpty
    /\ searchDir = Undefined
    /\ searchComponents = Undefined
    /\ searchReport = Undefined
    /\ searchProp = Undefined
    /\ tasks = EmptyBag
    /\ stale = FALSE
    /\ entry = NoEntry
    /\ acted = [invoked |-> FALSE, modeBefore |-> ModeEmpty, task |-> NoTask,
                log |-> <<>>]
    /\ view = <<>>
    /\ nav = NavInit

\* The step of invocation `old` (NoTask for a new one) ends in s; an
\* invocation that has returned is no longer pending.
\* The step issued an analyze call.
Started(s) == \E i \in 1..Len(s.log) : s.log[i].e = "analyze"

\* The other invocations once a new analyze call has started: none of
\* their calls is the most recently started one any more.
Overtaken(others) ==
    LET old == BagToSet(others)
        new == {[t EXCEPT !.latest = FALSE] : t \in old}
    IN  [u \in new |-> CopiesIn(u, others)
                        + CopiesIn([u EXCEPT !.latest = TRUE], others)]

Commit(old, s, invoked) ==
    /\ mode' = s.mode
    /\ searchDir' = s.searchDir
    /\ searchComponents' = s.searchComponents
    /\ searchReport' = s.searchReport
    /\ searchProp' = s.searchProp
    /\ stale' = s.stale
    /\ tasks' = LET others == IF invoked THEN tasks
                              ELSE tasks (-) SetToBag({old})
                    rest == IF Started(s) THEN Overtaken(others) ELSE others
                IN  IF s.task.pc = "done" THEN rest
                    ELSE rest (+) SetToBag({s.task})
    /\ entry' = IF ~invoked THEN entry
                ELSE IF tasks = EmptyBag
                THEN [mode |-> mode, options |-> options(Begin(NoTask))]
                ELSE NoEntry
    /\ acted' = [invoked |-> invoked, modeBefore |-> mode, task |-> s.task,
                 log |-> s.log]
    /\ UNCHANGED <<view, nav>>

\* A new invocation of run() or refresh().
spawn(kind) == Begin([NoTask EXCEPT !.kind = kind, !.promise = Pending])

Pendings == BagToSet(tasks)

\* The jsxInfo.run command: jsxInfoProvider.run().
RunCommand(limit, folders) ==
    /\ BagCardinality(tasks) < limit
    /\ \E wf \in WorkspaceFolderChoices(folders) :
          Commit(NoTask, getOptions(spawn("run"), wf), TRUE)

\* The jsxInfo.refresh command: jsxInfoProvider.refresh().
RefreshCommand(limit) ==
    /\ BagCardinality(tasks) < limit
    /\ Commit(NoTask, refresh(spawn("refresh")), TRUE)

\* showWorkspaceFolderPick resolves.
FolderPicked(folders) ==
    \E t \in Pendings, answer \in FolderAnswers(folders) :
        /\ t.pc = "pickFolder"
        /\ Commit(t, getOptionsDir(Begin(t), answer), FALSE)

\* The "Which components?" input box resolves.
ComponentsEntered(answers) ==
    \E t \in Pendings, answer \in answers :
        /\ t.pc = "askComponents"
        /\ Commit(t, getOptionsComponents(Begin(t), answer), FALSE)

\* The report quick pick resolves.
ReportPicked(answers) ==
    \E t \in Pendings, answer \in answers :
        /\ t.pc = "pickReport"
        /\ Commit(t, getOptionsReport(Begin(t), answer), FALSE)

\* The "Which prop?" input box resolves.
PropEntered ==
    \E t \in Pendings, answer \in PropAnswers :
        /\ t.pc = "askProp"
        /\ Commit(t, getOptionsProp(Begin(t), answer), FALSE)

\* A jsxInfo.analyze call settles and its refresh() resumes.
AnalyzeSettled ==
    \E t \in Pendings, outcome \in Outcomes :
        /\ t.pc = "analyze"
        /\ Commit(t, refreshResume(Begin(t), outcome), FALSE)

Next ==
    \/ RunCommand(MaxLive, Folders)
    \/ RefreshCommand(MaxLive)
    \/ FolderPicked(Folders)
    \/ ComponentsEntered(ComponentAnswers)
    \/ ReportPicked(FewReportAnswers)
    \/ PropEntered
    \/ AnalyzeSettled

Spec == Init /\ [][Next]_vars

SeqNext ==
    \/ RunCommand(1, MoreFolders)
    \/ RefreshCommand(1)
    \/ FolderPicked(MoreFolders)
    \/ ComponentsEntered(MoreComponentAnswers)
    \/ ReportPicked(ReportAnswers)
    \/ PropEntered
    \/ AnalyzeSettled

SeqSpec == Init /\ [][SeqNext]_vars

----------------------------------------------------------------------------
(* RenderSpec: rendering and navigation over a set of analysis results.    *)

\* Number of openFile calls in one behaviour.
MaxOpens == 2

ComponentNames == {"A", "B"}
PropNames == {"p", "q"}
UsageCounts == {0, 1, 3, 8}
PropCounts == {1, 3}

\* The sequences without repetition over a set of keys.
KeyOrders(K) ==
    UNION { {q \in [1..n -> K] : \A i, j \in 1..n : q[i] = q[j] => i = j}
            : n \in 0..Cardinality(K) }

\* The records with keys in K, in any key order, and values in V.
Dicts(K, V) ==
    UNION { {[i \in 1..Len(ks) |-> [k |-> ks[i], v |-> vs[i]]]
             : vs \in [1..Len(ks) -> V]} : ks \in KeyOrders(K) }

\* Occurrence records of lineUsage: 1-based lines, 0-based columns.
Occ1 == [filename |-> "f", propCode |-> "p={1}",
         startLoc |-> [line |-> 1, column |-> 0],
         endLoc |-> [line |-> 1, column |-> 1]]
Occ2 == [filename |-> "g", propCode |-> "q",
         startLoc |-> [line |-> 2, column |-> 1],
         endLoc |-> [line |-> 3, column |-> 0]]
OccLists == {<<>>, <<Occ2, Occ1>>}

ErrorEntries == {[loc |-> [line |-> 2, column |-> 1], message |-> "bad"]}
PluginLists == {<<>>, <<"x">>, <<"y", "x">>}

\* The report kind stored and the result held, for each render input.
RenderInputs ==
    { [report |-> Some("Usage"),
       result |-> [BaseAnalysis EXCEPT !.componentUsage = u, !.errors = e,
                                       !.suggestedPlugins = pl]]
      : u \in Dicts(ComponentNames, UsageCounts),
        e \in Dicts(Documents, ErrorEntries), pl \in PluginLists }
    \cup
    { [report |-> Some("Props"),
       result |-> [BaseAnalysis EXCEPT !.componentUsage = u, !.propUsage = pu]]
      : u \in Dicts(ComponentNames, UsageCounts),
        pu \in Dicts(ComponentNames, Dicts(PropNames, PropCounts)) }
    \cup
    { [report |-> r,
       result |-> [BaseAnalysis EXCEPT !.lineUsage = l]]
      : r \in {Some("Lines"), Undefined},
        l \in Dicts(ComponentNames, Dicts(PropNames, OccLists)) }

\* Arguments of a direct jsxInfo._openFile command: a caret position (start
\* and end are the same), line 0 included.
CommandArgs ==
    { [filename |-> d, startLine |-> l, startColumn |-> c,
       endLine |-> l, endColumn |-> c]
      : d \in Documents, l \in 0..MaxLine, c \in 0..MaxColumn }

RenderInit ==
    /\ \/ /\ mode \in {ModeEmpty, ModeLoading}
          /\ searchReport \in {Undefined} \cup {Some(l) : l \in ReportLabels}
       \/ \E in \in RenderInputs :
             /\ mode = ModeOk([args |-> [directory |-> Some("D"),
                                        components |-> <<>>,
                                        prop |-> Undefined],
                               report |-> in.report, latest |-> TRUE,
                               data |-> in.result])
             /\ searchReport = in.report
    /\ searchDir = Some("D")
    /\ searchComponents = Some(StarStr)
    /\ searchProp = Undefined
    /\ tasks = EmptyBag
    /\ stale = FALSE
    /\ entry = NoEntry
    /\ acted = [invoked |-> FALSE, modeBefore |-> ModeEmpty, task |-> NoTask,
                log |-> <<>>]
    /\ view = <<>>
    /\ nav = [NavInit EXCEPT !.opens = 0]

Provider ==
    <<mode, searchDir, searchComponents, searchReport, searchProp,
      tasks, stale, entry, acted>>

\* The host asks for the root items.
GetChildren ==
    /\ view' = getChildren(Begin(NoTask))
    /\ UNCHANGED <<Provider, nav>>

\* The user activates a file-location item of the rendered tree.
Activate ==
    \E item \in ItemsIn(view) :
        /\ item.type = "openFile"
        /\ nav.pc = "idle"
        /\ nav.opens < MaxOpens
        /\ nav' = openFile(nav, ArgsOf(item))
        /\ UNCHANGED <<Provider, view>>

\* The jsxInfo._openFile command is executed with arguments of its own.
OpenFileCommand ==
    \E args \in CommandArgs :
        /\ mode = ModeEmpty
        /\ nav.pc = "idle"
        /\ nav.opens < MaxOpens
        /\ nav' = openFile(nav, args)
        /\ UNCHANGED <<Provider, view>>

\* openTextDocument settles.
DocumentOpened ==
    \E failure \in {Undefined} \cup {Some(m) : m \in OpenFailures} :
        /\ nav.pc = "openTextDocument"
        /\ nav' = openFileOpened(nav, failure)
        /\ UNCHANGED <<Provider, view>>

\* showTextDocument settles.
DocumentShown ==
    \E failure \in {Undefined} \cup {Some(m) : m \in ShowFailures} :
        /\ nav.pc = "showTextDocument"
        /\ nav' = openFileShown(nav, failure)
        /\ UNCHANGED <<Provider, view>>

RenderNext ==
    \/ GetChildren
    \/ Activate
    \/ OpenFileCommand
    \/ DocumentOpened
    \/ DocumentShown

RenderSpec == RenderInit /\ [][RenderNext]_vars

----------------------------------------------------------------------------
(* Derived notions *)

\* Number of analyze calls started and not yet settled.
InFlight ==
    LET waiting == {t \in Pendings : t.pc = "analyze"}
    IN  BagCardinality([t \in waiting |-> tasks[t]])

\* The effects of one kind in the last step, in order.
Writes == SelectSeq(acted.log, LAMBDA x : x.e = "mode")
Fires == SelectSeq(acted.log, LAMBDA x : x.e = "fire")
Shows == SelectSeq(acted.log, LAMBDA x : x.e = "show")
Calls == SelectSeq(acted.log, LAMBDA x : x.e = "analyze")

\* The stored options now.
Options == options(Begin(NoTask))

\* The last step was a command invoking the operation `kind`.
Invoked(kind) == acted.invoked /\ acted.task.kind = kind

\* The last step resumed a refresh() whose analyze call settled as `kind`.
Settled(kind) == ~acted.invoked /\ acted.task.settled.kind = kind

\* The last step was run() returning because a prompt was cancelled.
Cancelled == acted.task.kind = "run" /\ acted.task.got = "cancelled"

TypeOK ==
    /\ mode.name \in {"empty", "loading", "ok"}
    /\ \A t \in Pendings : t.pc \in PromptPcs \cup {"analyze"}
    /\ BagCardinality(tasks) <= MaxLive + 1

----------------------------------------------------------------------------
(* Claims *)

\* C1: run() and refresh() invoked while Mode = Loading are no-ops: the
\* invocation issues no analyze call, opens no prompt and leaves Mode as it
\* was.
C1_NoOpWhileLoading ==
    (acted.invoked /\ acted.modeBefore.name = "loading") =>
        /\ Calls = <<>>
        /\ acted.task.pc \notin PromptPcs
        /\ mode = acted.modeBefore

\* C2: at most one analyze call is in flight (started and not yet settled)
\* in every reachable state.
C2_AtMostOneInFlight == InFlight <= 1

\* C3: every assignment to Mode is one of Empty -> Loading, Ok -> Loading,
\* Loading -> Ok, Loading -> Empty.
ModeTransitions ==
    { <<"empty", "loading">>, <<"ok", "loading">>,
      <<"loading", "ok">>, <<"loading", "empty">> }

C3_ModeTransitions ==
    \A i \in 1..Len(Writes) : <<Writes[i].from, Writes[i].to>> \in ModeTransitions

\* C4: a Loading state always resolves: once no analyze call is in flight
\* any more, Mode is Ok or Empty, and no analyze call starts while Mode is
\* Loading.
C4_LoadingResolves ==
    /\ (InFlight = 0) => (mode.name # "loading")
    /\ (Calls # <<>>) => (acted.modeBefore.name # "loading")

\* C5: when the analyze call of a refresh rejects with an Error carrying
\* message m, the resumed refresh shows exactly the message m, leaves
\* Mode = Empty, and fires a change notification after writing Empty.
C5_ErrorRecovered ==
    Settled("error") =>
        /\ Len(Shows) = 1
        /\ Shows[1].msg = acted.task.settled.message
        /\ mode = ModeEmpty
        /\ Len(acted.log) >= 2
        /\ acted.log[Len(acted.log)].e = "fire"
        /\ acted.log[Len(acted.log) - 1] =
               [e |-> "mode", from |-> acted.modeBefore.name, to |-> "empty"]
        /\ ~stale

C5_Witness ==
    /\ Settled("error")
    /\ acted.task.pc = "done"
    /\ acted.modeBefore.name = "loading"

\* C6: when the analyze call fails with a value that is not an Error, no
\* message is shown and the promise of the operation the command invoked
\* (refresh(), or run() when run() started the analysis) is rejected with
\* that value.
C6_OtherFailurePropagates ==
    Settled("other") =>
        /\ Shows = <<>>
        /\ acted.task.promise = Rejected(acted.task.settled.value)

\* C7: a run() that is collecting options, or that returns because a prompt
\* was cancelled, writes no Mode, fires no change notification, issues no
\* analyze call and shows no message; when nothing else was pending
\* during the run, Mode is what it was when run() was invoked.
C7_CancelIsSilent ==
    /\ (acted.task.kind = "run" /\ acted.task.pc \in PromptPcs) =>
           (acted.log = <<>> /\ mode = acted.modeBefore)
    /\ Cancelled => (acted.log = <<>> /\ mode = acted.modeBefore)
    /\ (Cancelled /\ entry # NoEntry) => (mode = entry.mode)

C7_Witness ==
    /\ Cancelled
    /\ ~acted.invoked
    /\ entry # NoEntry
    /\ entry.mode.name = "ok"
    /\ searchReport = Some("Lines")
    /\ searchProp = Some(EmptyStr)

\* C8: when run() returns because a prompt was cancelled (nothing else
\* pending during the run), the stored directory, component filter, report
\* kind and prop are what they were when run() was invoked.
C8_CancelKeepsOptions ==
    (Cancelled /\ entry # NoEntry) => (Options = entry.options)

\* C9: refresh() invoked while Mode = Empty collects options first: the
\* invocation issues no analyze call before the prompts are answered, and
\* no analyze call is ever issued with an absent directory or report kind.
C9_RefreshWhenEmptyPrompts ==
    /\ (Invoked("refresh") /\ acted.modeBefore.name = "empty") =>
           (Calls = <<>>)
    /\ \A i \in 1..Len(Calls) :
           /\ ~IsUndefined(Calls[i].args.directory)
           /\ ~IsUndefined(searchReport)

\* C10: refresh() invoked while Mode = Ok issues, without prompting, an
\* analyze call with exactly the directory, components and prop that
\* produced the displayed result (a result of options collected by run()).
C10_RefreshReusesOptions ==
    (/\ Invoked("refresh")
     /\ acted.modeBefore.name = "ok"
     /\ ~IsUndefined(acted.modeBefore.result.args.directory)) =>
        /\ Len(Calls) = 1
        /\ Calls[1].args = acted.modeBefore.result.args
        /\ acted.task.pc = "analyze"

\* C11: every analyze call issued by a run() passes a prop that is present
\* and non-empty if and only if the report kind in effect is Lines.
C11_PropIffLines ==
    (acted.task.kind = "run") =>
        \A i \in 1..Len(Calls) :
            (/\ ~IsUndefined(Calls[i].args.prop)
             /\ Calls[i].args.prop # Some(EmptyStr))
            <=> (searchReport = Some("Lines"))

\* C12: when Mode = Ok the root items contain exactly one report section,
\* and its kind is the report kind stored when the analyze call that
\* produced the displayed result was made.
ReportTitles == {<<"Usage Report">>, <<"Props Report">>, <<"Lines Report">>}

TitleOf(report) ==
    CASE report = "Usage" -> <<"Usage Report">>
      [] report = "Props" -> <<"Props Report">>
      [] OTHER -> <<"Lines Report">>

Roots == getChildren(Begin(NoTask))

Sections(roots) ==
    {i \in 1..Len(roots) :
        roots[i].type = "folder" /\ roots[i].label \in ReportTitles}

C12_SectionOfDisplayedResult ==
    (mode.name = "ok" /\ ~IsUndefined(mode.result.report)) =>
        /\ Cardinality(Sections(Roots)) = 1
        /\ \A i \in Sections(Roots) :
               Roots[i].label = TitleOf(Val(mode.result.report))

\* C13 as stated: in every Mode the root items start with the Run command,
\* and the Refresh command is among them if and only if Mode = Ok.
RunNode == TreeCommand(<<"Run">>, "jsxInfo.run", <<>>)
RefreshNode == TreeCommand(<<"Refresh">>, "jsxInfo.refresh", <<>>)
Rendered == view # <<>>
HasRefresh == \E i \in 1..Len(view) : view[i] = RefreshNode

C13_RunFirstInEveryMode ==
    Rendered =>
        /\ view[1] = RunNode
        /\ HasRefresh <=> (mode.name = "ok")

\* C13 amended: in Mode Empty and Ok the root items start with the Run
\* command; in Mode Loading they are the single Info item "Scanning..." and
\* no command; the Refresh command is among them if and only if Mode = Ok.
C13_RunFirstUnlessLoading ==
    Rendered =>
        /\ (mode.name # "loading") => (view[1] = RunNode)
        /\ (mode.name = "loading") => (view = <<TreeInfo(<<"Scanning...">>)>>)
        /\ HasRefresh <=> (mode.name = "ok")

C13_Witness == Rendered /\ mode.name = "loading" /\ Len(view) = 1

\* C14: every Folder item of a rendered tree has at least one child, and
\* the folders whose only child is the Info item "No results" are as many
\* as the empty tables and lists of the displayed report: the empty
\* componentUsage, propUsage or lineUsage, the empty inner prop maps and
\* the empty occurrence lists.
Placeholder == <<TreeInfo(<<"No results">>)>>

RECURSIVE Sum(_)
Sum(numbers) ==
    IF numbers = <<>> THEN 0 ELSE Head(numbers) + Sum(Tail(numbers))

SumOver(items, n(_)) == Sum([i \in 1..Len(items) |-> n(items[i])])

RECURSIVE Placeholders(_)
Placeholders(item) ==
    (IF item.type = "folder" /\ item.children = Placeholder THEN 1 ELSE 0)
    + SumOver(item.children, LAMBDA c : Placeholders(c))

IsEmpty(table) == IF table = <<>> THEN 1 ELSE 0

EmptyTables(report, data) ==
    IF report = Some("Usage") THEN IsEmpty(data.componentUsage)
    ELSE IF report = Some("Props")
    THEN IsEmpty(data.propUsage)
         + SumOver(data.propUsage, LAMBDA c : IsEmpty(c.v))
    ELSE IsEmpty(data.lineUsage)
         + SumOver(data.lineUsage,
               LAMBDA c : IsEmpty(c.v)
                          + SumOver(c.v, LAMBDA pr : IsEmpty(pr.v)))

C14_FoldersNeverEmpty ==
    (Rendered /\ mode.name = "ok") =>
        /\ \A item \in ItemsIn(view) :
               (item.type = "folder") => (Len(item.children) >= 1)
        /\ SumOver(view, LAMBDA c : Placeholders(c))
               = EmptyTables(searchReport, mode.result.data)

C14_Witness ==
    /\ Rendered
    /\ mode.name = "ok"
    /\ searchReport = Some("Lines")
    /\ SumOver(view, LAMBDA c : Placeholders(c)) = 2
    /\ Len(mode.result.data.lineUsage) = 2

\* C15: the directory folder has the Errors sub-folder if and only if
\* errors is non-empty and the Suggested Plugins sub-folder if and only if
\* suggestedPlugins is non-empty; none of its children is a placeholder or
\* an undefined entry, and with both empty its children are exactly the
\* two summary Info items.
HasFolder(item, label) ==
    \E i \in 1..Len(item.children) :
        item.children[i].type = "folder" /\ item.children[i].label = label

C15_SubFoldersIffNonEmpty ==
    (Rendered /\ mode.name = "ok") =>
        LET dir == view[3]
            data == mode.result.data
        IN  /\ dir.type = "folder"
            /\ dir.label = <<data.directory>>
            /\ HasFolder(dir, <<"Errors">>) <=> (data.errors # <<>>)
            /\ HasFolder(dir, <<"Suggested Plugins">>)
                   <=> (data.suggestedPlugins # <<>>)
            /\ \A i \in 1..Len(dir.children) :
                   /\ dir.children[i].type # "undefined"
                   /\ dir.children[i] # TreeInfo(<<"No results">>)
            /\ (data.errors = <<>> /\ data.suggestedPlugins = <<>>) =>
                   /\ Len(dir.children) = 2
                   /\ dir.children[1].type = "info"
                   /\ dir.children[2].type = "info"

C15_Witness ==
    /\ Rendered
    /\ mode.name = "ok"
    /\ mode.result.data.errors = <<>>
    /\ mode.result.data.suggestedPlugins = <<>>
    /\ Len(view[3].children) = 2

\* C16: the Usage report has exactly one leaf per key of componentUsage,
\* and the leaf of a component with a greater usage count comes before the
\* leaf of a component with a smaller one.
UsageLeaf(e) == TreeInfo(<<ToString(e.v), Sep, "<", e.k, ">">>)

LeafIndexes(section, e) ==
    {i \in 1..Len(section.children) : section.children[i] = UsageLeaf(e)}

C16_UsageSortedDescending ==
    (/\ Rendered
     /\ mode.name = "ok"
     /\ searchReport = Some("Usage")
     /\ mode.result.data.componentUsage # <<>>) =>
        LET usage == mode.result.data.componentUsage
            section == view[4]
        IN  /\ section.label = <<"Usage Report">>
            /\ Len(section.children) = Len(usage)
            /\ \A a \in 1..Len(usage) :
                   Cardinality(LeafIndexes(section, usage[a])) = 1
            /\ \A a, b \in 1..Len(usage) :
                   (usage[a].v > usage[b].v) =>
                       \A i \in LeafIndexes(section, usage[a]),
                          j \in LeafIndexes(section, usage[b]) : i < j

C16_Witness ==
    /\ Rendered
    /\ mode.name = "ok"
    /\ searchReport = Some("Usage")
    /\ mode.result.data.componentUsage
           = <<[k |-> "A", v |-> 1], [k |-> "B", v |-> 8]>>
    /\ view[4].children[1] = UsageLeaf([k |-> "B", v |-> 8])

\* C17: in the Props report the leaf of a prop with count c of a component
\* with total usage T shows the percentage round(100*c/T) when T > 0, and
\* shows no percentage when T = 0 or the component is absent from
\* componentUsage.
Abs(x) == IF x < 0 THEN 0 - x ELSE x

\* r is an integer nearest to 100*c/T.
Nearest(r, c, T) == 2 * Abs(100 * c - r * T) <= T

PercentageAsClaimed(label, c, total) ==
    IF ~IsUndefined(total) /\ Val(total) > 0
    THEN /\ Len(label) = 6
         /\ label[6] = "%"
         /\ \E r \in 0..(100 * c) :
                Nearest(r, c, Val(total)) /\ label[5] = ToString(r)
    ELSE Len(label) = 3

C17_PercentageRounded ==
    (Rendered /\ mode.name = "ok" /\ searchReport = Some("Props")) =>
        LET data == mode.result.data
            section == view[4]
        IN  \A ci \in 1..Len(data.propUsage) :
                LET c == data.propUsage[ci]
                    total == Get(data.componentUsage, c.k)
                IN  \E f \in 1..Len(section.children) :
                        LET folder == section.children[f]
                        IN  /\ folder.type = "folder"
                            /\ folder.label[2] = c.k
                            /\ \A pi \in 1..Len(c.v) :
                                   \E l \in 1..Len(folder.children) :
                                       LET label == folder.children[l].label
                                       IN  /\ Len(label) >= 3
                                           /\ label[1] = ToString(c.v[pi].v)
                                           /\ label[3] = c.v[pi].k
                                           /\ PercentageAsClaimed(label,
                                                  c.v[pi].v, total)

\* C18: an openFile call that completes selects, in the document it was
\* given, from line startLine - 1 to line endLine - 1 with the columns
\* unchanged; and the file-location items of a rendered tree carry exactly
\* the filename and start/end locations of the errors and, in the Lines
\* report, of the occurrences of the displayed result.
Location(filename, startLoc, endLoc) ==
    [filename |-> filename,
     startLine |-> startLoc.line, startColumn |-> startLoc.column,
     endLine |-> endLoc.line, endColumn |-> endLoc.column]

ErrorLocations(data) ==
    {Location(data.errors[i].k, data.errors[i].v.loc, data.errors[i].v.loc)
     : i \in 1..Len(data.errors)}

OccurrencesOf(lineUsage) ==
    UNION {UNION {{lineUsage[c].v[pr].v[o] : o \in 1..Len(lineUsage[c].v[pr].v)}
                  : pr \in 1..Len(lineUsage[c].v)}
           : c \in 1..Len(lineUsage)}

LineLocations(data) ==
    {Location(o.filename, o.startLoc, o.endLoc)
     : o \in OccurrencesOf(data.lineUsage)}

ShownLocations ==
    {ArgsOf(item) : item \in {it \in ItemsIn(view) : it.type = "openFile"}}

C18_SelectionFromOneBasedLines ==
    /\ (nav.outcome = "ok") =>
           LET a == nav.args
               sel == nav.selections[a.filename]
           IN  /\ nav.active = a.filename
               /\ sel.start = Position(a.startLine - 1, a.startColumn)
               /\ sel.end = Position(a.endLine - 1, a.endColumn)
               /\ nav.revealed = [start |-> sel.start, end |-> sel.end]
    /\ (Rendered /\ mode.name = "ok") =>
           ShownLocations
               = ErrorLocations(mode.result.data)
                 \cup (IF searchReport \in {Some("Usage"), Some("Props")}
                       THEN {}
                       ELSE LineLocations(mode.result.data))

C18_Witness ==
    /\ nav.outcome = "ok"
    /\ mode.name = "ok"
    /\ nav.args = Location("g", [line |-> 2, column |-> 1],
                            [line |-> 3, column |-> 0])
    /\ nav.selections["g"].start = Position(1, 1)
    /\ nav.selections["g"].end = Position(2, 0)

\* C19: when openFile fails (the document cannot be opened or shown, or
\* the range cannot be built) its promise is fulfilled all the same, the
\* failure message is shown once and logged once with logger.fail, and
\* the selection of every document is what it was when openFile was
\* called.
FailureMessages == OpenFailures \cup ShowFailures \cup {IllegalArgument}

C19_OpenFileFailureContained ==
    (nav.outcome = "failed") =>
        /\ nav.pc = "idle"
        /\ nav.promise = Fulfilled
        /\ Len(nav.shown) = 1
        /\ nav.shown[1] \in FailureMessages
        /\ nav.logged = <<<<"fail", nav.shown[1]>>>>
        /\ nav.selections = nav.before
        /\ (nav.shown[1] = IllegalArgument) =>
               RangeThrows(nav.args.startLine - 1, nav.args.startColumn,
                           nav.args.endLine - 1, nav.args.endColumn)

C19_Witness ==
    /\ nav.outcome = "failed"
    /\ nav.shown = <<IllegalArgument>>
    /\ nav.opens = MaxOpens
    /\ nav.before[nav.args.filename] # Selection(0, 0, 0, 0)
    /\ nav.selections = nav.before

\* C20: every write to Mode is followed, in the same synchronous stretch, by
\* a change notification; the Loading write and its notification precede
\* the analyze call; so whenever nothing is pending the last notification
\* came after the last write.
C20_NotifiedAfterWrite ==
    /\ \A i \in 1..Len(acted.log) :
           (acted.log[i].e = "mode") =>
               (i < Len(acted.log) /\ acted.log[i + 1].e = "fire")
    /\ \A k \in 1..Len(acted.log) :
           (acted.log[k].e = "analyze") =>
               /\ k >= 3
               /\ acted.log[k - 2].e = "mode"
               /\ acted.log[k - 2].to = "loading"
               /\ acted.log[k - 1].e = "fire"
    /\ (tasks = EmptyBag) => ~stale

C20_Witness ==
    /\ tasks = EmptyBag
    /\ mode.name = "ok"
    /\ Len(Writes) = 1
    /\ Len(Fires) = 1
    /\ ~stale

\* C21: whenever Mode = Ok and no analyze call is in flight, the stored
\* result is the result of the most recently started analyze call.
C21_LatestStartedWins ==
    (mode.name = "ok" /\ InFlight = 0) => mode.result.latest

====
